---- MODULE Spec2Model ----
(***************************************************************************)
(* A state-machine model of dhan-fastapi-bridge.                           *)
(*                                                                         *)
(*   dhan_auth.py   DhanAuth: the access token, its expiry, the token      *)
(*                  file, get_token() and _refresh_token()                 *)
(*   main.py        the master CSV cache, the NSE EQ universe derived      *)
(*                  from it, and the /scan/all response cache              *)
(*                                                                         *)
(*   dhan_trade.py  place_order() and its risk check, on the module's       *)
(*                  DhanAuth object                                        *)
(*                                                                         *)
(* main.py shares no state with the other two (it reads its token from     *)
(* the environment), so each has its own specification:                    *)
(*   SpecAuth   callers of DhanAuth.get_token() running concurrently       *)
(*   SpecTrade  calls of place_order(), one at a time                      *)
(*   Spec       the request handlers of main.py, one request at a time     *)
(*   SpecMaster the master CSV cache and the universe, one request at a    *)
(*              time                                                       *)
(*   SpecLoad   callers of load_master_rows() running concurrently         *)
(*   SpecBuild  callers of build_nse_eq_universe() and load_master_rows()  *)
(*              running concurrently                                       *)
(* and the loops and functions of main.py are also taken on their own:     *)
(*   SpecUniverse  the loop of build_nse_eq_universe() over the rows       *)
(*   SpecFetch     the quote-fetching loop, request by request             *)
(*   SpecWindow    the choice of the page                                  *)
(*   SpecClassify  the loop over the page, the sort and the response       *)
(*   SpecResolve   resolve_symbol()                                        *)
(***************************************************************************)
EXTENDS Integers, Sequences, FiniteSets, TLC

VARIABLES
    now,            \* time.time()
    ticks,          \* how often the clock has advanced
    \* ---- dhan_auth.py ----
    access_token,   \* DhanAuth.access_token
    expires_at,     \* DhanAuth.expires_at
    token_file,     \* the content of token_store.json, or NoFile
    pc,             \* per caller of get_token(): "idle", or "refreshing" while its
                    \* POST to /token/refresh is in flight
    everHeld,       \* history: a token has been loaded or obtained at some time
    grant,          \* history: the oldest [tok, until] a successful refresh gave
                    \* that is still in force (now < until), else NoGrant
    last,           \* history: the latest step of a get_token() call (see NoCall)
    \* ---- main.py ----
    _MASTER_CACHE,  \* [fetched_at, rows, nse_eq_universe]
    lastOp,         \* history: the latest request that used the master cache (see NoOp)
    loadedAt,       \* history: when a load_master_rows(force=False) call last
                    \* downloaded the CSV with success, if one ever did
    _SCAN_CACHE,    \* cache_key -> Absent or Some([t, resp])
    lastScan,       \* history: the latest /scan/all request (see NoScan)
    loader,         \* per caller of load_master_rows(): [pc, now, force], pc being
                    \* "get" while its SESSION.get(MASTER_CSV) is in flight
    fetch,          \* the quote-fetching loop in progress (see NoFetch)
    eval,           \* the function of main.py being evaluated on its own, with
                    \* its arguments and its result (see NoEval)
    builder,        \* per caller of build_nse_eq_universe(): [pc, now, rows] (see
                    \* NoBuild)
    \* ---- dhan_trade.py ----
    order           \* the place_order() call in progress (see NoOrder)

authVars == <<access_token, expires_at, token_file, pc, everHeld, grant, last>>
masterVars == <<_MASTER_CACHE, lastOp, loadedAt>>
scanVars == <<_SCAN_CACHE, lastScan>>
callVars == <<loader, fetch, eval>>
workVars == <<builder, order>>
mainVars == <<masterVars, scanVars, callVars, workVars>>
clockVars == <<now, ticks>>

----------------------------------------------------------------------------
(* Bounds of the model *)

NumCallers == 2     \* concurrent callers of get_token()
MaxTicks == 3       \* clock advances in one behaviour
MaxScanTicks == 2   \* clock advances in one behaviour of Spec
MaxRows == 4        \* rows of a master CSV given to build_nse_eq_universe or to
                    \* resolve_symbol
MaxIds == 45        \* security ids given to one quote-fetching call
MaxUniverse == 45   \* entries of the universe a page is chosen from
MaxShift == 3       \* spread_shift of a request
MaxEntries == 3     \* entries of the universe whose quotes are classified
MaxBuildTicks == 1  \* clock advances in one behaviour of SpecBuild
MaxQty == 3         \* qty of an order

(* Program constants *)

DEFAULT_TTL == 86400    \* data.get("expires_in", 86400)
MASTER_CACHE_TTL == 21600
SCAN_CACHE_TTL == 25
CAPITAL == 100000
MAX_RISK_PER_TRADE == 2     \* in hundredths: 0.02
FALLBACK_PRICE == 1000      \* price = 1000  # fallback assumption

Callers == 1..NumCallers
Tokens == {"T1", "T2"}          \* what the token endpoint may issue
ServerTTLs == {1, 2}            \* "expires_in" values the endpoint may send
None == "None"
NoFile == [exists |-> FALSE, access_token |-> "None", expires_at |-> 0]
RuntimeError == "RuntimeError"  \* raise RuntimeError("No valid Dhan access token!")

----------------------------------------------------------------------------
(* dhan_auth.py *)

\* DhanAuth._load_token applied to a token file: the (access_token, expires_at)
\* pair __init__ ends with.
_load_token(file) ==
    IF ~file.exists
    THEN [access_token |-> None, expires_at |-> 0]
    ELSE [access_token |-> file.access_token, expires_at |-> file.expires_at]

\* DhanAuth._save_token: the record written to token_store.json.
_save_token(tok, exp) == [exists |-> TRUE, access_token |-> tok, expires_at |-> exp]

\* The test of get_token's first line: a token is held and it has not expired.
TokenUsable(tok, exp, t) == tok # None /\ t < exp

\* The responses _refresh_token can meet:
\*   ok      a 2xx body with access_token and expires_in
\*   nottl   a 2xx body with access_token and no expires_in
\*   badttl  a 2xx body with access_token and an expires_in int() rejects
\*   error   a transport error, a non-2xx status, a body that is not JSON or
\*           one without access_token
Responses ==
    [kind : {"ok"}, tok : Tokens, ttl : ServerTTLs]
      \cup [kind : {"nottl", "badttl"}, tok : Tokens, ttl : {0}]
      \cup [kind : {"error"}, tok : {None}, ttl : {0}]

\* The token in memory after the try block of _refresh_token met response r:
\* data["access_token"] is assigned before expires_in is parsed.
TokenAfter(r) == IF r.kind = "error" THEN access_token ELSE r.tok

\* The expiry in memory after the try block met response r.
ExpiryAfter(r) ==
    CASE r.kind = "ok" -> now + r.ttl
      [] r.kind = "nottl" -> now + DEFAULT_TTL
      [] OTHER -> expires_at

\* The token file after the try block met response r: _save_token is the last
\* statement of the success path.
FileAfter(r) ==
    IF r.kind \in {"ok", "nottl"}
    THEN _save_token(TokenAfter(r), ExpiryAfter(r))
    ELSE token_file

\* RefreshResult with the except branch raising whether or not a token is held.
RefreshResult_AlwaysRaise(r, tok) ==
    IF r.kind \in {"ok", "nottl"} THEN tok ELSE RuntimeError

\* What _refresh_token hands back once the try block left token tok in memory:
\* the except branch raises only when no token is held.
RefreshResult(r, tok) ==
    IF r.kind \in {"ok", "nottl"} THEN tok
    ELSE IF tok = None THEN RuntimeError ELSE tok

\* The record of the latest step of a get_token() call:
\*   step      "none", "hit" (returned the held token, no request), "post" (sent
\*             the refresh request) or "refreshed" (returned from _refresh_token)
\*   ret       what the call returned or raised, None while it has not
\*   promised  the token of the grant in force when the call started, else None
\*   failed    how the refresh attempt failed: "error", "badttl", else "no"
\*   prevTok   access_token when the response was handled
\*   ever      everHeld when the call ended
NoCall ==
    [step |-> "none", ret |-> None, promised |-> None, failed |-> "no",
     prevTok |-> None, ever |-> FALSE]

NoGrant == [tok |-> None, until |-> 0]

\* The token a successful refresh gave for a period that includes time t.
Promised(t) == IF t < grant.until THEN grant.tok ELSE None

\* get_token(), first half: return the held token while it is usable, else
\* enter _refresh_token and send the POST.  Nothing stops a second caller
\* from doing the same while the first POST is in flight.
get_token(c) ==
    /\ pc[c] = "idle"
    /\ IF TokenUsable(access_token, expires_at, now)
       THEN /\ pc' = pc
            /\ last' = [NoCall EXCEPT !.step = "hit", !.ret = access_token,
                                       !.promised = Promised(now)]
       ELSE /\ pc' = [pc EXCEPT ![c] = "refreshing"]
            /\ last' = [NoCall EXCEPT !.step = "post",
                                       !.promised = Promised(now)]
    /\ UNCHANGED <<access_token, expires_at, token_file, everHeld, grant,
                   clockVars, mainVars>>

\* _refresh_token(), from the response to the return.
_refresh_token(c) ==
    /\ pc[c] = "refreshing"
    /\ \E r \in Responses :
         /\ access_token' = TokenAfter(r)
         /\ expires_at' = ExpiryAfter(r)
         /\ token_file' = FileAfter(r)
         /\ everHeld' = (everHeld \/ r.kind # "error")
         /\ grant' = IF r.kind \in {"ok", "nottl"} /\ ~(now < grant.until)
                      THEN [tok |-> r.tok, until |-> ExpiryAfter(r)]
                      ELSE grant
         /\ last' = [step |-> "refreshed",
                     ret |-> RefreshResult(r, TokenAfter(r)),
                     promised |-> None,
                     failed |-> IF r.kind \in {"error", "badttl"} THEN r.kind ELSE "no",
                     prevTok |-> access_token,
                     ever |-> (everHeld \/ r.kind # "error")]
    /\ pc' = [pc EXCEPT ![c] = "idle"]
    /\ UNCHANGED <<clockVars, mainVars>>

\* time.time() moves on by a second.
AuthTick ==
    /\ ticks < MaxTicks
    /\ ticks' = ticks + 1
    /\ now' = now + 1
    /\ grant' = IF now + 1 < grant.until THEN grant ELSE NoGrant
    /\ UNCHANGED <<access_token, expires_at, token_file, pc, everHeld, last,
                   mainVars>>

\* No place_order() call in progress:
\*   pc      "idle", "token" (get_token's refresh request in flight), "post1"
\*           (about to send the order), "refresh" (the first answer was 401, the
\*           refresh request is in flight), "post2" (about to send the order
\*           again) or "done" (returned or raised)
\*   qty, price  the arguments; price Absent when it is not given
\*   token   headers["access-token"]
\*   log     the requests the call has sent, in order (see OrderPost, RefreshPost)
\*   result  "none", or what the call returned or raised
NoOrder ==
    [pc |-> "idle", qty |-> 0, price |-> << >>, token |-> None, log |-> << >>,
     result |-> "none"]

\* token_store.json as an earlier run may have left it.
TokenFiles ==
    {NoFile} \cup [exists : {TRUE}, access_token : Tokens, expires_at : {0, 1}]

\* DhanAuth.__init__ on token file f.
AuthInit(f) ==
    /\ token_file = f
    /\ access_token = _load_token(f).access_token
    /\ expires_at = _load_token(f).expires_at
    /\ pc = [c \in Callers |-> "idle"]
    /\ everHeld = f.exists
    /\ grant = NoGrant
    /\ last = NoCall
    /\ order = NoOrder

----------------------------------------------------------------------------
(* main.py: the master CSV cache and the NSE EQ universe *)

\* Optional[...]: Absent is Python's None, Some(x) a value.
Absent == <<>>
Some(x) == <<x>>

NoError == "none"
HTTP502 == "HTTPException(502)"     \* a status other than 200
Exception == "Exception"            \* what requests or csv raise

\* One row of the master CSV, as csv.DictReader gives it (the columns that
\* build_nse_eq_universe reads).
Row(exch, seg, series, sid, sym, disp, instr) ==
    [EXCH_ID |-> exch, SEGMENT |-> seg, SERIES |-> series, SECURITY_ID |-> sid,
     SYMBOL_NAME |-> sym, DISPLAY_NAME |-> disp, INSTRUMENT |-> instr]

\* The CSV bodies the download may bring.
CSV_A ==
    << Row("NSE", "E", "EQ", "11", "AAA", "Aaa Ltd", "EQUITY"),
       Row("BSE", "E", "EQ", "22", "BBB", "", "EQUITY"),
       Row(" nse", "e", "eq ", "11.0", "AAA", "Aaa Ltd", "EQUITY"),
       Row("NSE", "E", "EQ", "33", "CCC", "", "EQUITY") >>
CSV_B ==
    << Row("NSE", "E", "EQ", "33", "CCC", "", "EQUITY"),
       Row("NSE", "E", "EQ", "44", "GOLDETF", "", "EQUITY"),
       Row("NSE", "D", "EQ", "55", "DDD", "", "FUTSTK"),
       Row("NSE", "E", "EQ", "x", "EEE", "", "EQUITY"),
       Row("NSE", "E", "EQ", "22", "BBB", "", "EQUITY"),
       Row("NSE", "E", "BE", "66", "FFF", "", "EQUITY"),
       Row("NSE", "E", "EQ", "", "GGG", "", "EQUITY") >>
CSV_C == << >>
Datasets == {CSV_A, CSV_B, CSV_C}

\* What SESSION.get(MASTER_CSV) and the parse of its body can come to:
\*   ok         status 200 and a body csv.DictReader reads
\*   status     a status other than 200
\*   transport  requests raises (connection error, timeout)
\*   parse      csv raises on the body
MasterResponses ==
    [kind : {"ok"}, rows : Datasets]
      \cup [kind : {"status", "transport", "parse"}, rows : {<< >>}]

\* What load_master_rows raises on response r.
MasterError(r) ==
    CASE r.kind = "ok" -> NoError
      [] r.kind = "status" -> HTTP502
      [] OTHER -> Exception

\* The test of load_master_rows' first statement, force aside.
CacheFresh(M, t) ==
    M.rows # Absent /\ t - M.fetched_at < MASTER_CACHE_TTL

\* Refreshed with the old fetched_at kept.
Refreshed_KeepsFetchedAt(M, t, rows) ==
    [rows |-> Some(rows), fetched_at |-> M.fetched_at, nse_eq_universe |-> Absent]

\* Refreshed with the derived universe kept.
Refreshed_KeepsUniverse(M, t, rows) ==
    [rows |-> Some(rows), fetched_at |-> t, nse_eq_universe |-> M.nse_eq_universe]

\* _MASTER_CACHE after a download that succeeded at time t.
Refreshed(M, t, rows) ==
    [rows |-> Some(rows), fetched_at |-> t, nse_eq_universe |-> Absent]

\* NotRefreshed with the time of the attempt recorded.
NotRefreshed_StampsFetchedAt(M, t) == [M EXCEPT !.fetched_at = t]

\* _MASTER_CACHE after a download that failed at time t: every assignment
\* comes after the statements that can raise.
NotRefreshed(M, t) == M

\* load_master_rows(force) at time t, the download (if any) meeting response r:
\* the cache it leaves, what it raises, the rows it returns and how many
\* downloads it made.
load_master_rows(M, t, force, r) ==
    IF ~force /\ CacheFresh(M, t)
    THEN [cache |-> M, raised |-> NoError, rows |-> M.rows[1], downloads |-> 0,
          resp |-> "none"]
    ELSE IF r.kind # "ok"
    THEN [cache |-> NotRefreshed(M, t), raised |-> MasterError(r), rows |-> << >>,
          downloads |-> 1, resp |-> r.kind]
    ELSE [cache |-> Refreshed(M, t, r.rows), raised |-> NoError, rows |-> r.rows,
          downloads |-> 1, resp |-> r.kind]

\* s.strip().upper() on the values the EXCH_ID, SEGMENT and SERIES columns take.
StripUpper(s) ==
    CASE s = " nse" -> "NSE"
      [] s = "e" -> "E"
      [] s = "eq " -> "EQ"
      [] OTHER -> s

\* any(bad in name_blob for bad in ["ETF", "MUTUAL", "MF", ...]) on the names
\* the rows carry: of these only GOLDETF contains a listed word.
ContainsBad(sym, disp, instr) == "GOLDETF" \in {sym, disp, instr}

\* int(float(sid_raw)) on the values the SECURITY_ID column takes; -1 stands
\* for the exception float() raises.
ParseSecurityId(sid_raw) ==
    CASE sid_raw = "11" -> 11
      [] sid_raw = "11.0" -> 11
      [] sid_raw = "22" -> 22
      [] sid_raw = "33" -> 33
      [] sid_raw = "44" -> 44
      [] sid_raw = "55" -> 55
      [] sid_raw = "66" -> 66
      [] OTHER -> -1

\* Eligible with the SERIES column left untested.
Eligible_AnySeries(r) ==
    /\ StripUpper(r.EXCH_ID) = "NSE"
    /\ StripUpper(r.SEGMENT) = "E"
    /\ r.SECURITY_ID # ""
    /\ r.SYMBOL_NAME # ""
    /\ ~ContainsBad(r.SYMBOL_NAME, r.DISPLAY_NAME, r.INSTRUMENT)
    /\ ParseSecurityId(r.SECURITY_ID) # -1

\* The row passes every `continue` of the loop up to the duplicate check.
Eligible(r) ==
    /\ StripUpper(r.EXCH_ID) = "NSE"
    /\ StripUpper(r.SEGMENT) = "E"
    /\ StripUpper(r.SERIES) = "EQ"
    /\ r.SECURITY_ID # ""
    /\ r.SYMBOL_NAME # ""
    /\ ~ContainsBad(r.SYMBOL_NAME, r.DISPLAY_NAME, r.INSTRUMENT)
    /\ ParseSecurityId(r.SECURITY_ID) # -1

\* The entry appended for an eligible row.
Entry(r) ==
    [security_id |-> ParseSecurityId(r.SECURITY_ID),
     symbol_name |-> r.SYMBOL_NAME,
     display_name |-> IF r.DISPLAY_NAME = "" THEN r.SYMBOL_NAME ELSE r.DISPLAY_NAME]

\* The loop of build_nse_eq_universe over rows[1..n]: the universe so far.
RECURSIVE UniverseUpTo(_, _)
UniverseUpTo(rows, n) ==
    IF n = 0 THEN << >>
    ELSE LET u == UniverseUpTo(rows, n - 1)
             r == rows[n]
             seen == {<<u[i].security_id, u[i].symbol_name>> : i \in 1..Len(u)}
         IN IF Eligible(r)
               /\ <<ParseSecurityId(r.SECURITY_ID), r.SYMBOL_NAME>> \notin seen
            THEN Append(u, Entry(r))
            ELSE u

Universe(rows) == UniverseUpTo(rows, Len(rows))

\* build_nse_eq_universe(force_refresh) at time t, a download (if any) meeting
\* response r.  `plain` is the result of the load_master_rows() call without
\* force, when one was made, and `mid` the cache that call found.
build_nse_eq_universe(M, t, force_refresh, r) ==
    LET forced == load_master_rows(M, t, TRUE, r)
        M1 == IF force_refresh THEN forced.cache ELSE M
    IN  IF force_refresh /\ forced.raised # NoError
        THEN [cache |-> M1, raised |-> forced.raised, universe |-> << >>,
              downloads |-> 1, resp |-> forced.resp, mid |-> M1, plain |-> Absent]
        ELSE IF M1.nse_eq_universe # Absent
        THEN [cache |-> M1, raised |-> NoError, universe |-> M1.nse_eq_universe[1],
              downloads |-> IF force_refresh THEN 1 ELSE 0,
              resp |-> IF force_refresh THEN forced.resp ELSE "none",
              mid |-> M1, plain |-> Absent]
        ELSE LET second == load_master_rows(M1, t, FALSE, r)
                 u == Universe(second.rows)
             IN [cache |-> IF second.raised # NoError THEN second.cache
                           ELSE [second.cache EXCEPT !.nse_eq_universe = Some(u)],
                 raised |-> second.raised,
                 universe |-> IF second.raised # NoError THEN << >> ELSE u,
                 downloads |-> (IF force_refresh THEN 1 ELSE 0) + second.downloads,
                 resp |-> IF force_refresh THEN forced.resp ELSE second.resp,
                 mid |-> M1, plain |-> Some(second)]

\* The record of the latest request that used the master cache:
\*   op        "none", "rows" (a handler calling load_master_rows()) or
\*             "universe" (build_nse_eq_universe)
\*   resp      how the download went: "none" when there was none, else the
\*             kind of the response
\*   raised    what the call raised
\*   universe  the universe returned, if any
\*   replaced  a cached universe was there before the call and the call
\*             returned another
\*   plain     of the load_master_rows(force=False) call the request made, if
\*             any: see LoadRecord
NoOp ==
    [op |-> "none", resp |-> "none", raised |-> NoError, universe |-> Absent,
     replaced |-> FALSE, plain |-> Absent]

\* The record of one load_master_rows(force=False) call at time t on cache M:
\*   within     an earlier such call downloaded the CSV less than
\*              MASTER_CACHE_TTL before
\*   downloads  the downloads this call made
\*   raised     what it raised
\*   served     the rows it returned are the ones the cache held
LoadRecord(M, t, res) ==
    [within |-> (loadedAt # Absent /\ t - loadedAt[1] < MASTER_CACHE_TTL),
     downloads |-> res.downloads,
     raised |-> res.raised,
     served |-> (res.raised = NoError /\ M.rows = Some(res.rows))]

\* loadedAt after a load_master_rows(force=False) call at time t.
LoadedAt(t, res) ==
    IF res.raised = NoError /\ res.downloads = 1 THEN Some(t) ELSE loadedAt

\* A handler that reads the rows: resolve_symbol, /optionchain and
\* /option/momentum all start with rows = load_master_rows().
ReadRows ==
    \E r \in MasterResponses :
      LET res == load_master_rows(_MASTER_CACHE, now, FALSE, r) IN
        /\ _MASTER_CACHE' = res.cache
        /\ lastOp' = [NoOp EXCEPT !.op = "rows", !.resp = res.resp,
                                  !.raised = res.raised,
                                  !.plain = Some(LoadRecord(_MASTER_CACHE, now, res))]
        /\ loadedAt' = LoadedAt(now, res)
        /\ UNCHANGED <<clockVars, authVars, scanVars, callVars, workVars>>

\* GET /universe: u = build_nse_eq_universe(force_refresh=refresh).
universe_debug(refresh) ==
    \E r \in MasterResponses :
      LET res == build_nse_eq_universe(_MASTER_CACHE, now, refresh, r) IN
        /\ _MASTER_CACHE' = res.cache
        /\ lastOp' = [op |-> "universe", resp |-> res.resp, raised |-> res.raised,
                      universe |-> IF res.raised = NoError THEN Some(res.universe)
                                   ELSE Absent,
                      replaced |-> /\ res.raised = NoError
                                   /\ _MASTER_CACHE.nse_eq_universe # Absent
                                   /\ _MASTER_CACHE.nse_eq_universe # Some(res.universe),
                      plain |-> IF res.plain = Absent THEN Absent
                                ELSE Some(LoadRecord(res.mid, now, res.plain[1]))]
        /\ loadedAt' = IF res.plain = Absent THEN loadedAt
                       ELSE LoadedAt(now, res.plain[1])
        /\ UNCHANGED <<clockVars, authVars, scanVars, callVars, workVars>>

----------------------------------------------------------------------------
(* main.py: GET /scan/all and its response cache *)

\* The query parameters of the requests made.  DHAN_ACCESS_TOKEN and
\* DHAN_CLIENT_ID are set in the environment.
ScanRequests ==
    { [limit |-> 30, max_symbols |-> 50, batch_size |-> 50, only_today |-> TRUE,
       spread |-> TRUE, spread_shift |-> 0, mode |-> "btst"],
      [limit |-> 1, max_symbols |-> 20, batch_size |-> 20, only_today |-> FALSE,
       spread |-> FALSE, spread_shift |-> 0, mode |-> "morning"] }

\* cache_key: the seven parameters joined by ":"; the first six hold no ":",
\* so two requests have the same key only if they agree on all seven.
cache_key(p) ==
    <<p.limit, p.max_symbols, p.batch_size, p.only_today, p.spread,
      p.spread_shift, p.mode>>

Keys == {cache_key(p) : p \in ScanRequests}

Max(a, b) == IF a >= b THEN a ELSE b
Min(a, b) == IF a <= b THEN a ELSE b

\* The while loop of the spread branch: the indices (from 0) appended from i
\* on, k of them being wanted still.
RECURSIVE StrideFrom(_, _, _, _)
StrideFrom(i, stride, k, n) ==
    IF k > 0 /\ i < n THEN <<i>> \o StrideFrom(i + stride, stride, k - 1, n)
    ELSE << >>

\* PageIndices with the spread sampling starting at spread_shift itself.
PageIndices_NoModulo(p, n) ==
    IF p.spread
    THEN StrideFrom(p.spread_shift, Max(1, n \div p.max_symbols), p.max_symbols, n)
    ELSE [i \in 1..Min(n, p.max_symbols) |-> i - 1]

\* The indices (from 0) of the universe entries a request scans.
PageIndices(p, n) ==
    IF p.spread
    THEN StrideFrom(p.spread_shift % Max(1, n), Max(1, n \div p.max_symbols),
                    p.max_symbols, n)
    ELSE [i \in 1..Min(n, p.max_symbols) |-> i - 1]

\* page
Page(p, universe) ==
    LET idx == PageIndices(p, Len(universe))
    IN [k \in 1..Len(idx) |-> universe[idx[k] + 1]]

\* How many chunks range(0, n, batch_size) gives.
Batches(n, batch_size) == (n + batch_size - 1) \div batch_size

\* ist_today(), and parse_last_trade_date on the last_trade_time values of the
\* feeds ("" for None).
today == "2026-11-02"
parse_last_trade_date(ltt) ==
    CASE ltt = "02/11/2026 15:29:59" -> "2026-11-02"
      [] ltt = "30/10/2026 15:29" -> "2026-10-30"
      [] OTHER -> ""

\* One quote of the feed; 0 stands for a field that is absent, None or 0.
Quote(ltp, ltt, open, high, low, vol) ==
    [last_price |-> ltp, last_trade_time |-> ltt, open |-> open, high |-> high,
     low |-> low, volume |-> vol]

\* str(sid) on the security ids of the universes.
Str(sid) ==
    CASE sid = 11 -> "11"
      [] sid = 22 -> "22"
      [] sid = 33 -> "33"
      [] sid = 44 -> "44"
      [] OTHER -> "?"

\* data[quote_key] as the quote API may answer: security id (a string) -> quote.
FEED_1 ==
    [k \in {"11", "33"} |->
        IF k = "11" THEN Quote(105, "02/11/2026 15:29:59", 100, 105, 99, 5000)
        ELSE Quote(97, "02/11/2026 15:29:59", 100, 101, 97, 700)]
FEED_2 ==
    [k \in {"11", "22", "33"} |->
        CASE k = "11" -> Quote(101, "30/10/2026 15:29", 100, 102, 100, 10)
          [] k = "22" -> Quote(0, "N/A", 0, 0, 0, 0)
          [] OTHER -> Quote(103, "02/11/2026 15:29:59", 100, 110, 100, 42)]
Feeds == {FEED_1, FEED_2}

\* What one SESSION.post to /marketfeed/quote can come to:
\*   ok         status 200 with a feed
\*   429        status 429
\*   status     another status that is not 200
\*   transport  requests raises
QuoteResponses ==
    [kind : {"ok"}, feed : Feeds]
      \cup [kind : {"429", "status", "transport"}, feed : {FEED_1}]

\* The HTTPException detail or str(e) of a failure.
RateLimitDetail == "Dhan rate limit (429). Retry after ~20-30 seconds."
QuoteFailedDetail == "Dhan quote API failed"
MasterFailedDetail == "Failed to fetch Dhan master CSV"
ExceptionText == "str(e)"

\* pct_vs_open in hundredths of a percent, range_pos in hundredths: the feeds
\* hold prices for which the quotients are exact.
PctVsOpen(q) == ((q.last_price - q.open) * 10000) \div q.open
RangePos(q) ==
    IF q.high # 0 /\ q.low # 0 /\ q.high # q.low
    THEN Max(0, Min(100, ((q.last_price - q.low) * 100) \div (q.high - q.low)))
    ELSE 50

\* Score with the thresholds exclusive.
Score_Strict(pct, range_pos, mode) ==
    LET bullish == pct > 120
        bearish == pct < -120
    IN  IF mode = "btst"
        THEN IF bullish /\ range_pos >= 70 THEN <<"BULLISH", 85>>
             ELSE IF bearish /\ range_pos <= 30 THEN <<"BEARISH", 82>>
             ELSE <<"NEUTRAL", 65>>
        ELSE IF bullish THEN <<"BULLISH", 80>>
             ELSE IF bearish THEN <<"BEARISH", 78>>
             ELSE <<"NEUTRAL", 65>>

\* The scoring heuristic: <<bias, confidence>>.
Score(pct, range_pos, mode) ==
    LET bullish == pct >= 120
        bearish == pct <= -120
    IN  IF mode = "btst"
        THEN IF bullish /\ range_pos >= 70 THEN <<"BULLISH", 85>>
             ELSE IF bearish /\ range_pos <= 30 THEN <<"BEARISH", 82>>
             ELSE <<"NEUTRAL", 65>>
        ELSE IF bullish THEN <<"BULLISH", 80>>
             ELSE IF bearish THEN <<"BEARISH", 78>>
             ELSE <<"NEUTRAL", 65>>

\* Verdict with the entry that has no open price dropped uncounted.
Verdict_OpenUncounted(item, qmaps, p) ==
    LET k == Str(item.security_id) IN
    IF k \notin DOMAIN qmaps THEN "no_quote"
    ELSE IF qmaps[k].last_price = 0 THEN "no_quote"
    ELSE IF p.only_today /\ parse_last_trade_date(qmaps[k].last_trade_time) # today
         THEN "stale"
    ELSE IF qmaps[k].open = 0 THEN "dropped"
    ELSE "result"

\* What the loop body does with one page entry: "no_quote", "stale" or "result".
Verdict(item, qmaps, p) ==
    LET k == Str(item.security_id) IN
    IF k \notin DOMAIN qmaps THEN "no_quote"
    ELSE IF qmaps[k].last_price = 0 THEN "no_quote"
    ELSE IF p.only_today /\ parse_last_trade_date(qmaps[k].last_trade_time) # today
         THEN "stale"
    ELSE IF qmaps[k].open = 0 THEN "no_quote"
    ELSE "result"

\* The dict appended to results.
Result(item, q, p) ==
    LET sc == Score(PctVsOpen(q), RangePos(q), p.mode) IN
    [symbol |-> item.symbol_name, bias |-> sc[1], confidence |-> sc[2],
     last_price |-> q.last_price, pct_vs_open |-> PctVsOpen(q),
     range_pos |-> RangePos(q), volume |-> q.volume,
     last_trade_time |-> q.last_trade_time]

\* results after the loop over page[1..n].
RECURSIVE ResultsUpTo(_, _, _, _)
ResultsUpTo(page, n, qmaps, p) ==
    IF n = 0 THEN << >>
    ELSE LET rest == ResultsUpTo(page, n - 1, qmaps, p) IN
         IF Verdict(page[n], qmaps, p) = "result"
         THEN Append(rest, Result(page[n], qmaps[Str(page[n].security_id)], p))
         ELSE rest

\* How many entries of the page come to verdict v.
Count(page, qmaps, p, v) ==
    Cardinality({i \in 1..Len(page) : Verdict(page[i], qmaps, p) = v})

\* Before with the key cut to the confidence.
Before_ConfidenceOnly(x, y) == x.confidence > y.confidence

\* x sorts before y under key (confidence, pct_vs_open), reverse=True.
Before(x, y) ==
    \/ x.confidence > y.confidence
    \/ x.confidence = y.confidence /\ x.pct_vs_open > y.pct_vs_open

\* list.sort(key=..., reverse=True): stable, so equal keys keep their order.
RECURSIVE SortDesc(_)
SortDesc(rs) ==
    IF rs = << >> THEN << >>
    ELSE LET sorted == SortDesc(SubSeq(rs, 1, Len(rs) - 1))
             x == rs[Len(rs)]
             k == Cardinality({i \in 1..Len(sorted) : ~Before(x, sorted[i])})
         IN SubSeq(sorted, 1, k) \o <<x>> \o SubSeq(sorted, k + 1, Len(sorted))

\* seq[:n]
Take(seq, n) == SubSeq(seq, 1, Min(n, Len(seq)))

\* The success response (the fields that are not constants).
SuccessResp(p, t, universe, qmaps) ==
    LET page == Page(p, universe)
        results == SortDesc(ResultsUpTo(page, Len(page), qmaps, p))
    IN [status |-> "success", timestamp |-> t, universe_count |-> Len(universe),
        spread |-> p.spread, spread_shift |-> p.spread_shift,
        max_symbols |-> p.max_symbols, batch_size |-> p.batch_size,
        mode |-> p.mode, only_today |-> p.only_today,
        symbols_scanned |-> Len(results),
        skipped_no_quote |-> Count(page, qmaps, p, "no_quote"),
        skipped_stale |-> Count(page, qmaps, p, "stale"),
        top_results |-> Take(results, p.limit)]

\* The error dict of the except branches.
ErrorResp(reason, t) == [status |-> "error", reason |-> reason, timestamp |-> t]

\* ScanFresh with the entry still served at the age of SCAN_CACHE_TTL.
ScanFresh_Inclusive(entry, t) ==
    entry # Absent /\ t - entry[1].t <= SCAN_CACHE_TTL

\* `cached and (now - cached["t"] < SCAN_CACHE_TTL)`
ScanFresh(entry, t) ==
    entry # Absent /\ t - entry[1].t < SCAN_CACHE_TTL

\* The cached response as the hit branch returns it: top_results is cut to
\* limit, and set to [] in a cached error dict, which has none.
ServeCached(resp, limit) ==
    IF resp.status = "success"
    THEN [resp EXCEPT !.top_results = Take(resp.top_results, limit)]
    ELSE [status |-> resp.status, reason |-> resp.reason,
          timestamp |-> resp.timestamp, top_results |-> << >>]

\* What the client gets: a returned dict (HTTP 200) or a raised HTTPException.
Returned(resp) == [how |-> "return", code |-> 200, body |-> Some(resp), detail |-> ""]
Raised(code, detail) == [how |-> "raise", code |-> code, body |-> Absent, detail |-> detail]

\* Whether the except branch the failure lands in stores it in _SCAN_CACHE:
\* `except HTTPException` does, `except Exception` does not.
FailureCached(how) == how = "raise"

\* scan_all(p) past the cache lookup, at time t on master cache M: the
\* universe comes from build_nse_eq_universe(), the quotes from one
\* dhan_quote_batch per chunk, every POST of this request meeting response q.
\*   out       what the client gets
\*   store     the dict put in _SCAN_CACHE, if any
\*   upstream  the requests sent upstream (CSV downloads and quote POSTs)
\*   build     the result of build_nse_eq_universe
ScanMiss(p, t, M, r, q) ==
    LET build == build_nse_eq_universe(M, t, FALSE, r)
        page == Page(p, build.universe)
        nb == Batches(Len(page), p.batch_size)
        posts == IF q.kind = "ok" THEN nb ELSE Min(1, nb)
        failure ==
            IF build.raised = HTTP502 THEN Raised(502, MasterFailedDetail)
            ELSE IF build.raised = Exception THEN Returned(ErrorResp(ExceptionText, t))
            ELSE IF nb = 0 \/ q.kind = "ok" THEN Returned(ErrorResp("", t))
            ELSE IF q.kind = "429" THEN Raised(429, RateLimitDetail)
            ELSE IF q.kind = "status" THEN Raised(502, QuoteFailedDetail)
            ELSE Returned(ErrorResp(ExceptionText, t))
        ok == build.raised = NoError /\ (nb = 0 \/ q.kind = "ok")
        err == IF failure.how = "raise" THEN ErrorResp(failure.detail, t)
               ELSE failure.body[1]
    IN  [out |-> IF ok THEN Returned(SuccessResp(p, t, build.universe, q.feed))
                 ELSE failure,
         store |-> IF ok THEN Some(SuccessResp(p, t, build.universe, q.feed))
                   ELSE IF FailureCached(failure.how) THEN Some(err)
                   ELSE Absent,
         upstream |-> build.downloads + (IF build.raised = NoError THEN posts ELSE 0),
         build |-> build]

\* The responses that matter to build_nse_eq_universe(): one stands for all
\* when no download is made.
MasterAnswers(M, t) ==
    IF M.nse_eq_universe # Absent \/ CacheFresh(M, t)
    THEN {[kind |-> "ok", rows |-> CSV_C]}
    ELSE MasterResponses

\* The responses that matter to the quote loop: one stands for all when no
\* POST is made.
QuoteAnswers(p, t, M, r) ==
    LET build == build_nse_eq_universe(M, t, FALSE, r) IN
    IF build.raised # NoError \/ Len(Page(p, build.universe)) = 0
    THEN {[kind |-> "ok", feed |-> FEED_1]}
    ELSE QuoteResponses

\* The record of the latest /scan/all request:
\*   key       its cache key
\*   at        its time
\*   out       what the client got
\*   upstream  the requests it sent upstream
\*   served    it was answered from _SCAN_CACHE
\*   age       the age of the entry it was answered from
\*   within    the request before it had the same key, ran the scan itself and
\*             came less than SCAN_CACHE_TTL before
\*   failedBefore  that request failed (raised, or returned status "error")
\*   same      out is what that request got
NoScan ==
    [key |-> << >>, at |-> 0, out |-> Returned(ErrorResp("", 0)), upstream |-> 0,
     served |-> FALSE, age |-> 0, within |-> FALSE, failedBefore |-> FALSE,
     same |-> FALSE]

\* The client was told of a failure.
Failed(out) == out.how = "raise" \/ out.body[1].status = "error"

\* lastScan after a request with key k at time t.
ScanRecord(k, t, out, upstream, served, age) ==
    LET within == /\ lastScan.key = k
                  /\ ~lastScan.served
                  /\ t - lastScan.at < SCAN_CACHE_TTL IN
    [key |-> k, at |-> t, out |-> out, upstream |-> upstream, served |-> served,
     age |-> age, within |-> within,
     failedBefore |-> (within /\ Failed(lastScan.out)),
     same |-> (within /\ out = lastScan.out)]

\* GET /scan/all
scan_all(p) ==
    LET k == cache_key(p)
        cached == _SCAN_CACHE[k]
    IN  IF ScanFresh(cached, now)
        THEN LET resp == ServeCached(cached[1].resp, p.limit) IN
             /\ _SCAN_CACHE' = [_SCAN_CACHE EXCEPT ![k] = Some([t |-> cached[1].t,
                                                               resp |-> resp])]
             /\ lastScan' = ScanRecord(k, now, Returned(resp), 0, TRUE,
                                       now - cached[1].t)
             /\ UNCHANGED <<masterVars, clockVars, authVars, callVars, workVars>>
        ELSE \E r \in MasterAnswers(_MASTER_CACHE, now) :
             \E q \in QuoteAnswers(p, now, _MASTER_CACHE, r) :
             LET res == ScanMiss(p, now, _MASTER_CACHE, r, q) IN
             /\ _SCAN_CACHE' = IF res.store = Absent THEN _SCAN_CACHE
                               ELSE [_SCAN_CACHE EXCEPT ![k] =
                                        Some([t |-> now, resp |-> res.store[1]])]
             /\ lastScan' = ScanRecord(k, now, res.out, res.upstream, FALSE, 0)
             /\ _MASTER_CACHE' = res.build.cache
             /\ UNCHANGED <<lastOp, loadedAt, clockVars, authVars, callVars, workVars>>

----------------------------------------------------------------------------
(* load_master_rows() under concurrent requests.  The endpoints are plain    *)
(* `def` functions, which FastAPI runs on a thread pool, so two requests may *)
(* be inside load_master_rows() together; the function takes no lock.        *)

\* A caller outside load_master_rows().
NoLoad == [pc |-> "idle", now |-> 0, force |-> FALSE]

\* A caller outside build_nse_eq_universe():
\*   pc    "idle", "force" (the download of load_master_rows(force=True) in
\*         flight), "check" (about to test the cached universe), "get" (the
\*         download of load_master_rows() in flight) or "loop" (inside the loop
\*         over rows, up to the assignment of the universe)
\*   now   `now` of the load_master_rows call in progress
\*   rows  the local variable rows
NoBuild == [pc |-> "idle", now |-> 0, rows |-> << >>]

\* No quote-fetching loop, no evaluation.
NoFetch == [pc |-> "none"]
NoEval == [fn |-> "none", done |-> FALSE]

----------------------------------------------------------------------------
(* The quote-fetching loop of scan_all (batch_size from the request) and of  *)
(* option_momentum (batch size 200), one step per upstream request and per   *)
(* pause:                                                                    *)
(*     for i in range(0, len(security_ids), batch_size):                     *)
(*         chunk = security_ids[i:i + batch_size]                            *)
(*         qmaps.update(dhan_quote_batch(quote_key, chunk))                  *)
(*         if i + batch_size < len(security_ids):                            *)
(*             time.sleep(0.25)                                              *)
(* security_ids is the list 1, 2, ..., n, so that ids[from:to] holds the ids *)
(* from+1 .. to; a key of the quote map, the decimal string of an id, is     *)
(* held as that id.                                                          *)

HTTP429 == "HTTPException(429)"     \* status 429
HTTP500 == "HTTPException(500)"     \* require_dhan_creds without credentials

\* The calls: n ids with a batch size.  batch_size is 20..100 in /scan/all
\* and 200 in /option/momentum.
FetchCalls ==
    [n : 0..MaxIds, batch_size : {20, 21}]
      \cup {[n |-> 250, batch_size |-> 100], [n |-> 120, batch_size |-> 200]}

\* What one SESSION.post to /marketfeed/quote can come to: a status with the
\* ids data[quote_key] has records for (all of the chunk, none, or all and one
\* that was not asked for); status 0 stands for requests raising.
PostResponses ==
    [status : {200}, data : {"all", "none", "extra"}]
      \cup [status : {0, 204, 429, 500}, data : {"none"}]

\* The keys of data.get(quote_key, {}) for the chunk ids[from:to]; 0 is an id
\* that is in no request.
DataKeys(r, from, to) ==
    CASE r.data = "all" -> (from + 1)..to
      [] r.data = "extra" -> ((from + 1)..to) \cup {0}
      [] OTHER -> {}

\* dhan_quote_batch with every non-2xx status raising 502, 429 included.
dhan_quote_batch_No429(creds, r, from, to) ==
    IF ~creds THEN [raised |-> HTTP500, posted |-> FALSE, keys |-> {}]
    ELSE IF r.status = 0 THEN [raised |-> Exception, posted |-> TRUE, keys |-> {}]
    ELSE IF r.status # 200 THEN [raised |-> HTTP502, posted |-> TRUE, keys |-> {}]
    ELSE [raised |-> NoError, posted |-> TRUE, keys |-> DataKeys(r, from, to)]

\* dhan_quote_batch(quote_key, ids[from:to]) meeting response r: what it
\* raises, whether it sent the POST, and the keys of the map it returns.
dhan_quote_batch(creds, r, from, to) ==
    IF ~creds THEN [raised |-> HTTP500, posted |-> FALSE, keys |-> {}]
    ELSE IF r.status = 0 THEN [raised |-> Exception, posted |-> TRUE, keys |-> {}]
    ELSE IF r.status = 429 THEN [raised |-> HTTP429, posted |-> TRUE, keys |-> {}]
    ELSE IF r.status # 200 THEN [raised |-> HTTP502, posted |-> TRUE, keys |-> {}]
    ELSE [raised |-> NoError, posted |-> TRUE, keys |-> DataKeys(r, from, to)]

\* The events of the log of a call.
PostEvent(from, to) == [ev |-> "post", from |-> from, to |-> to]
SleepEvent == [ev |-> "sleep", from |-> 0, to |-> 0]

\* The loop on entry:
\*   pc      "post" before a dhan_quote_batch call, "sleep" before a pause,
\*           "done" after the loop, "raised" when an exception left it
\*   i       the loop variable
\*   qmaps   the keys of the merged map
\*   log     history: the requests sent (with their slice of ids) and the
\*           pauses made, in order
\*   status  the status of the latest response
\*   raised  the exception that left the loop
NewFetch(call, creds) ==
    [pc |-> IF call.n = 0 THEN "done" ELSE "post", n |-> call.n,
     batch_size |-> call.batch_size, creds |-> creds, i |-> 0, qmaps |-> {},
     log |-> << >>, status |-> 0, raised |-> NoError]

\* The pause test with <= for <: a pause after the final full batch too.
MorePause(i, batch_size, n) == i + batch_size <= n

\* `if i + batch_size < len(security_ids)`
More(i, batch_size, n) == i + batch_size < n

\* chunk = security_ids[i:i + batch_size]; qmaps.update(dhan_quote_batch(...))
fetch_post ==
    /\ fetch.pc = "post"
    /\ \E r \in PostResponses :
         LET to == IF fetch.i + fetch.batch_size < fetch.n
                   THEN fetch.i + fetch.batch_size ELSE fetch.n
             res == dhan_quote_batch(fetch.creds, r, fetch.i, to)
             log == IF res.posted THEN Append(fetch.log, PostEvent(fetch.i, to))
                    ELSE fetch.log
         IN fetch' =
              IF res.raised # NoError
              THEN [fetch EXCEPT !.pc = "raised", !.raised = res.raised,
                                 !.status = IF res.posted THEN r.status ELSE 0,
                                 !.log = log]
              ELSE [fetch EXCEPT !.pc = IF More(fetch.i, fetch.batch_size, fetch.n)
                                        THEN "sleep" ELSE "done",
                                 !.qmaps = fetch.qmaps \cup res.keys,
                                 !.status = r.status, !.log = log]
    /\ UNCHANGED <<clockVars, authVars, masterVars, scanVars, loader, eval, workVars>>

\* time.sleep(0.25), and on to the next chunk if range() has one.
fetch_sleep ==
    /\ fetch.pc = "sleep"
    /\ fetch' = [fetch EXCEPT !.pc = IF fetch.i + fetch.batch_size < fetch.n
                                     THEN "post" ELSE "done",
                              !.i = IF fetch.i + fetch.batch_size < fetch.n
                                    THEN fetch.i + fetch.batch_size ELSE fetch.i,
                              !.log = Append(fetch.log, SleepEvent)]
    /\ UNCHANGED <<clockVars, authVars, masterVars, scanVars, loader, eval, workVars>>

\* load_master_rows(force), up to SESSION.get: `now = time.time()`, then the
\* cached rows are returned, or the download is sent.
load_begin(c, force) ==
    /\ loader[c].pc = "idle"
    /\ loader' = [loader EXCEPT ![c] =
                    IF ~force /\ CacheFresh(_MASTER_CACHE, now)
                    THEN [pc |-> "idle", now |-> now, force |-> force]
                    ELSE [pc |-> "get", now |-> now, force |-> force]]
    /\ UNCHANGED <<clockVars, authVars, masterVars, scanVars, fetch, eval, workVars>>

\* load_master_rows(force), from the response on: raise, or parse and assign
\* the cache with the `now` read on entry.
load_end(c) ==
    /\ loader[c].pc = "get"
    /\ \E r \in MasterResponses :
         _MASTER_CACHE' = load_master_rows(_MASTER_CACHE, loader[c].now, TRUE, r).cache
    /\ loader' = [loader EXCEPT ![c] = NoLoad]
    /\ UNCHANGED <<clockVars, authVars, lastOp, loadedAt, scanVars, fetch, eval, workVars>>

\* time.time() moves on by d seconds, for at most max times.
Tick(d, max) ==
    /\ ticks < max
    /\ ticks' = ticks + 1
    /\ now' = now + d
    /\ UNCHANGED <<authVars, mainVars>>

\* The steps of the clock: they bring the age of a cache entry to just under,
\* to exactly and to over each TTL.
ScanSteps == {1, SCAN_CACHE_TTL - 1}
MasterSteps == {1, MASTER_CACHE_TTL - 1}

\* main.py as imported: _MASTER_CACHE = {"fetched_at": 0.0, "rows": None,
\* "nse_eq_universe": None}.
MainInit ==
    /\ _MASTER_CACHE = [fetched_at |-> 0, rows |-> Absent, nse_eq_universe |-> Absent]
    /\ lastOp = NoOp
    /\ loadedAt = Absent
    /\ _SCAN_CACHE = [k \in Keys |-> Absent]
    /\ lastScan = NoScan
    /\ loader = [c \in Callers |-> NoLoad]
    /\ builder = [c \in Callers |-> NoBuild]

Init ==
    /\ now = 0
    /\ ticks = 0
    /\ AuthInit(NoFile)
    /\ MainInit
    /\ fetch = NoFetch
    /\ eval = NoEval

NextMaster ==
    \/ ReadRows
    \/ \E refresh \in BOOLEAN : universe_debug(refresh)
    \/ \E d \in MasterSteps : Tick(d, MaxTicks)

SpecMaster == Init /\ [][NextMaster]_<<clockVars, authVars, mainVars>>

Next ==
    \/ \E p \in ScanRequests : scan_all(p)
    \/ \E d \in ScanSteps : Tick(d, MaxScanTicks)

Spec == Init /\ [][Next]_<<clockVars, authVars, mainVars>>

vars == <<clockVars, authVars, mainVars>>

----------------------------------------------------------------------------
(* build_nse_eq_universe()'s loop on its own: SpecUniverse gives it every    *)
(* list of at most MaxRows rows of RowPool.                                  *)

\* Rows a master CSV may hold: listed and unlisted exchanges, segments and
\* series, one row spelt twice, one security id under two symbols, an ETF,
\* and a listed share whose display name falls under the exclusion list.
RowPool ==
    { Row("NSE", "E", "EQ", "11", "AAA", "Aaa Ltd", "EQUITY"),
      Row(" nse", "e", "eq ", "11.0", "AAA", "Aaa Ltd", "EQUITY"),
      Row("NSE", "E", "EQ", "11", "CCC", "", "EQUITY"),
      Row("NSE", "E", "EQ", "33", "CCC", "", "EQUITY"),
      Row("BSE", "E", "EQ", "22", "BBB", "", "EQUITY"),
      Row("NSE", "D", "EQ", "55", "DDD", "", "FUTSTK"),
      Row("NSE", "E", "BE", "66", "FFF", "", "EQUITY"),
      Row("NSE", "E", "EQ", "44", "GOLDETF", "", "EQUITY"),
      Row("NSE", "E", "EQ", "33", "CCC", "GOLDETF", "EQUITY") }

RowLists == UNION {[1..n -> RowPool] : n \in 0..MaxRows}

InitUniverse ==
    /\ now = 0
    /\ ticks = 0
    /\ AuthInit(NoFile)
    /\ MainInit
    /\ fetch = NoFetch
    /\ \E rows \in RowLists :
         eval = [fn |-> "build_nse_eq_universe", done |-> FALSE, rows |-> rows,
                 universe |-> << >>]

\* The loop of build_nse_eq_universe over the rows, to `return universe`.
BuildUniverse ==
    /\ eval.fn = "build_nse_eq_universe"
    /\ ~eval.done
    /\ eval' = [eval EXCEPT !.done = TRUE, !.universe = Universe(eval.rows)]
    /\ UNCHANGED <<clockVars, authVars, masterVars, scanVars, loader, fetch, workVars>>

NextUniverse == BuildUniverse

SpecUniverse == InitUniverse /\ [][NextUniverse]_vars

----------------------------------------------------------------------------
(* The choice of the page on its own: SpecWindow gives it every request of   *)
(* WindowRequests on a universe of every size up to MaxUniverse.             *)

\* spread, spread_shift and max_symbols of a request.  /scan/all takes
\* max_symbols from 20 to 200; 2 is what scan_all takes when it is called as
\* a function.
WindowRequests ==
    [spread : BOOLEAN, spread_shift : 0..MaxShift, max_symbols : {2, 20, 21}]

InitWindow ==
    /\ now = 0
    /\ ticks = 0
    /\ AuthInit(NoFile)
    /\ MainInit
    /\ fetch = NoFetch
    /\ \E p \in WindowRequests, n \in 0..MaxUniverse :
         eval = [fn |-> "page", done |-> FALSE, p |-> p, n |-> n, indices |-> << >>]

\* The `if spread: ... else: ...` that builds page.
SelectPage ==
    /\ eval.fn = "page"
    /\ ~eval.done
    /\ eval' = [eval EXCEPT !.done = TRUE, !.indices = PageIndices(eval.p, eval.n)]
    /\ UNCHANGED <<clockVars, authVars, masterVars, scanVars, loader, fetch, workVars>>

NextWindow == SelectPage

SpecWindow == InitWindow /\ [][NextWindow]_vars

----------------------------------------------------------------------------
(* The loop over the page, the sort and the response on their own:           *)
(* SpecClassify gives them every request of ClassifyRequests, a universe of  *)
(* up to MaxEntries entries and every quote map over QuotePool.              *)

\* Quotes the API may send: moves of +5, -3, +1.2 and -1.2 percent against
\* the open at the high, at the low and in the middle of the day's range, a
\* last trade of another day, one with a time that does not parse, a quote
\* without last price and one without open.
QuotePool ==
    { Quote(105, "02/11/2026 15:29:59", 100, 105, 99, 5000),
      Quote(105, "02/11/2026 15:29:59", 100, 110, 100, 900),
      Quote(97, "02/11/2026 15:29:59", 100, 101, 97, 700),
      Quote(1012, "02/11/2026 15:29:59", 1000, 1012, 1000, 60),
      Quote(988, "02/11/2026 15:29:59", 1000, 1030, 970, 60),
      Quote(101, "30/10/2026 15:29", 100, 102, 100, 10),
      Quote(103, "N/A", 100, 110, 100, 42),
      Quote(0, "02/11/2026 15:29:59", 100, 100, 100, 0),
      Quote(50, "02/11/2026 15:29:59", 0, 0, 0, 5) }

\* The universe of k entries.
EntryList ==
    << [security_id |-> 11, symbol_name |-> "AAA", display_name |-> "Aaa Ltd"],
       [security_id |-> 22, symbol_name |-> "BBB", display_name |-> "BBB"],
       [security_id |-> 33, symbol_name |-> "CCC", display_name |-> "CCC"],
       [security_id |-> 44, symbol_name |-> "DDD", display_name |-> "DDD"] >>
UniverseOf(k) == SubSeq(EntryList, 1, k)

\* The merged quote maps for a universe of k entries: a quote for some of
\* its ids.
QuoteMaps(k) ==
    UNION {[S -> QuotePool] : S \in SUBSET {Str(EntryList[i].security_id) : i \in 1..k}}

ClassifyRequests ==
    [limit : {1, 2, 30}, max_symbols : {20}, batch_size : {20},
     only_today : BOOLEAN, spread : {FALSE}, spread_shift : {0},
     mode : {"btst", "morning"}]

InitClassify ==
    /\ now = 0
    /\ ticks = 0
    /\ AuthInit(NoFile)
    /\ MainInit
    /\ fetch = NoFetch
    /\ \E p \in ClassifyRequests, k \in 0..MaxEntries :
         \E qmaps \in QuoteMaps(k) :
           eval = [fn |-> "classify", done |-> FALSE, p |-> p,
                   universe |-> UniverseOf(k), qmaps |-> qmaps,
                   page |-> << >>, results |-> << >>, resp |-> Absent]

\* scan_all from `results = []` to the response: page and results (before
\* the sort) are kept beside it.
Classify ==
    /\ eval.fn = "classify"
    /\ ~eval.done
    /\ LET page == Page(eval.p, eval.universe) IN
       eval' = [eval EXCEPT
                  !.done = TRUE,
                  !.page = page,
                  !.results = ResultsUpTo(page, Len(page), eval.qmaps, eval.p),
                  !.resp = Some(SuccessResp(eval.p, now, eval.universe, eval.qmaps))]
    /\ UNCHANGED <<clockVars, authVars, masterVars, scanVars, loader, fetch, workVars>>

NextClassify == Classify

SpecClassify == InitClassify /\ [][NextClassify]_vars

InitFetch ==
    /\ now = 0
    /\ ticks = 0
    /\ AuthInit(NoFile)
    /\ MainInit
    /\ eval = NoEval
    /\ \E call \in FetchCalls, creds \in BOOLEAN : fetch = NewFetch(call, creds)

NextFetch ==
    \/ fetch_post
    \/ fetch_sleep

SpecFetch == InitFetch /\ [][NextFetch]_vars

NextLoad ==
    \/ \E c \in Callers, force \in BOOLEAN : load_begin(c, force)
    \/ \E c \in Callers : load_end(c)
    \/ \E d \in MasterSteps : Tick(d, MaxTicks)

SpecLoad == Init /\ [][NextLoad]_vars

InitAuth ==
    /\ now = 0
    /\ ticks = 0
    /\ \E f \in TokenFiles : AuthInit(f)
    /\ MainInit
    /\ fetch = NoFetch
    /\ eval = NoEval

NextAuth ==
    \/ \E c \in Callers : get_token(c)
    \/ \E c \in Callers : _refresh_token(c)
    \/ AuthTick

SpecAuth == InitAuth /\ [][NextAuth]_vars

----------------------------------------------------------------------------
(* Token Manager claims, checked under SpecAuth *)

\* C1: under concurrent callers of get_token() that all find the token expired
\* or absent, the refresh call is issued once and shared; at no time are two
\* refresh requests in flight together.
C1_SingleFlight ==
    Cardinality({c \in Callers : pc[c] = "refreshing"}) <= 1

\* C2: once get_token() has returned token T from a refresh at t0 with TTL D,
\* every later get_token() call made before t0 + D returns T and sends no
\* request.
C2_TokenStableUntilExpiry ==
    last.promised # None => (last.step = "hit" /\ last.ret = last.promised)

C4_PersistedEqualsMemory ==
    _load_token(token_file) =
        [access_token |-> access_token, expires_at |-> expires_at]

----------------------------------------------------------------------------
(* Reference dataset and universe claims, checked under SpecMaster *)

\* C8: load_master_rows(force=False) called twice within MASTER_CACHE_TTL
\* downloads once: a call made less than the TTL after such a call downloaded
\* the CSV makes no request and returns the cached rows.
C8_OneDownloadWithinTTL ==
    (lastOp.plain # Absent /\ lastOp.plain[1].within) =>
        /\ lastOp.plain[1].downloads = 0
        /\ lastOp.plain[1].raised = NoError
        /\ lastOp.plain[1].served

\* C8's case: the second call, inside the TTL, answered from the cache.
C8_Witness ==
    /\ lastOp.plain # Absent
    /\ lastOp.plain[1].within
    /\ lastOp.plain[1].downloads = 0
    /\ now > _MASTER_CACHE.fetched_at

\* C9: a download that fails (transport, status other than 200, parse) makes
\* the call raise and leaves rows, fetched_at and the cached universe as they
\* were.
C9_FailedRefreshKeepsCache ==
    [][lastOp'.resp \in {"status", "transport", "parse"} =>
          (lastOp'.raised # NoError /\ _MASTER_CACHE' = _MASTER_CACHE)]_vars

\* C9's case: a download failed while rows and a universe were cached.
C9_Witness ==
    /\ lastOp.resp \in {"status", "transport", "parse"}
    /\ _MASTER_CACHE.rows # Absent
    /\ _MASTER_CACHE.nse_eq_universe # Absent

\* C10: every successful download clears the cached universe, so the universe
\* build_nse_eq_universe returns next, forced or not, is built from the rows
\* now cached and is never the one built from the rows before.
C10_RefreshInvalidatesUniverse ==
    /\ _MASTER_CACHE.nse_eq_universe # Absent =>
          /\ _MASTER_CACHE.rows # Absent
          /\ _MASTER_CACHE.nse_eq_universe[1] = Universe(_MASTER_CACHE.rows[1])
    /\ (lastOp.op = "universe" /\ lastOp.universe # Absent) =>
          lastOp.universe[1] = Universe(_MASTER_CACHE.rows[1])
    /\ (lastOp.op = "rows" /\ lastOp.resp = "ok") =>
          _MASTER_CACHE.nse_eq_universe = Absent

\* C10's case: a universe was cached, the rows were downloaded anew and the
\* call returned a universe other than the cached one.
C10_Witness ==
    /\ lastOp.op = "universe"
    /\ lastOp.resp = "ok"
    /\ lastOp.replaced

----------------------------------------------------------------------------
(* Scan cache claims, checked under Spec *)

\* C5: a scan and a second scan with the same parameters less than
\* SCAN_CACHE_TTL after it get the same response, and the second sends nothing
\* upstream (no CSV download, no quote POST).
C5_RepeatServedFromCache ==
    lastScan.within => (lastScan.same /\ lastScan.upstream = 0)

\* C6: a scan that fails, by a 429 of the quote API or otherwise, is stored in
\* _SCAN_CACHE like a success, and the same scan repeated inside the TTL gets
\* the same failure response with nothing sent upstream.
C6_FailureCached ==
    /\ (lastScan.key \in Keys /\ Failed(lastScan.out) /\ ~lastScan.served) =>
          /\ _SCAN_CACHE[lastScan.key] # Absent
          /\ _SCAN_CACHE[lastScan.key][1].t = lastScan.at
          /\ _SCAN_CACHE[lastScan.key][1].resp.status = "error"
    /\ (lastScan.within /\ lastScan.failedBefore) =>
          (lastScan.same /\ lastScan.upstream = 0)

\* C7: a response is served from _SCAN_CACHE only while it is younger than
\* SCAN_CACHE_TTL.
C7_NeverServedStale ==
    lastScan.served => lastScan.age < SCAN_CACHE_TTL

\* C7's case: an entry served in the last second of its life.
C7_Witness ==
    /\ lastScan.served
    /\ lastScan.age = SCAN_CACHE_TTL - 1

----------------------------------------------------------------------------
(* Dataset refresh claim, checked under SpecLoad *)

\* C11: at most one download of the master CSV is in flight at a time;
\* concurrent callers that find the cache empty or expired wait for the one
\* download instead of sending their own.
C11_SingleFlightDownload ==
    Cardinality({c \in Callers : loader[c].pc = "get"}) <= 1

----------------------------------------------------------------------------
(* Universe claim, checked under SpecUniverse *)

\* The EXCH_ID = NSE, SEGMENT = E, SERIES = EQ filter.
PassesFilter(r) ==
    /\ StripUpper(r.EXCH_ID) = "NSE"
    /\ StripUpper(r.SEGMENT) = "E"
    /\ StripUpper(r.SERIES) = "EQ"

\* (security_id, symbol_name) of a universe entry and of a row.
EntryKey(e) == <<e.security_id, e.symbol_name>>
RowKey(r) == <<ParseSecurityId(r.SECURITY_ID), r.SYMBOL_NAME>>

\* The rows (by index) that pass the filter and carry the key of entry e.
Origins(rows, e) ==
    {k \in 1..Len(rows) : PassesFilter(rows[k]) /\ RowKey(rows[k]) = EntryKey(e)}

\* The rows (by index) the loop admits, duplicates aside, that carry the key
\* of entry e.
Admitted(rows, e) ==
    {k \in 1..Len(rows) : Eligible(rows[k]) /\ RowKey(rows[k]) = EntryKey(e)}

\* The least member of a non-empty set of numbers.
Least(S) == CHOOSE k \in S : \A j \in S : k <= j

\* C12: the list build_nse_eq_universe returns has no two entries with the same
\* (security_id, symbol_name), every entry comes from a row that passes the
\* NSE / E / EQ filter, and the entries stand in the order in which their
\* keys first occur among the admitted rows.
C12_UniverseDistinctFilteredOrdered ==
    eval.fn = "build_nse_eq_universe" /\ eval.done =>
        LET u == eval.universe IN
        /\ \A i, j \in 1..Len(u) : i # j => EntryKey(u[i]) # EntryKey(u[j])
        /\ \A i \in 1..Len(u) : Origins(eval.rows, u[i]) # {}
        /\ \A i, j \in 1..Len(u) :
               i < j => Least(Admitted(eval.rows, u[i])) < Least(Admitted(eval.rows, u[j]))

\* C12's case: a list with a row that fails the filter and a row that repeats
\* an earlier one, from which two entries are kept.
C12_Witness ==
    /\ eval.fn = "build_nse_eq_universe" /\ eval.done
    /\ Len(eval.universe) = 2
    /\ \E k \in 1..Len(eval.rows) : ~PassesFilter(eval.rows[k])
    /\ \E k, m \in 1..Len(eval.rows) :
           /\ k < m
           /\ Eligible(eval.rows[k]) /\ Eligible(eval.rows[m])
           /\ RowKey(eval.rows[k]) = RowKey(eval.rows[m])

----------------------------------------------------------------------------
(* Quote Gateway claims, checked under SpecFetch *)

\* The requests of a log, in order, and the number of its pauses.
Posts(log) == SelectSeq(log, LAMBDA e : e.ev = "post")
Pauses(log) == Len(SelectSeq(log, LAMBDA e : e.ev = "sleep"))

\* ceil(n / b)
CeilDiv(n, b) == IF n % b = 0 THEN n \div b ELSE n \div b + 1

\* The requests P carry at most b ids each and every one of the n ids once.
ExactCover(P, n, b) ==
    /\ \A j \in 1..Len(P) : P[j].from < P[j].to /\ P[j].to - P[j].from <= b
    /\ \A k \in 1..n :
         Cardinality({j \in 1..Len(P) : P[j].from < k /\ k <= P[j].to}) = 1

\* C13: a call that fetches n ids with batch size b sends ceil(n/b) requests,
\* each with at most b ids, that together carry every id exactly once (250 ids
\* and b = 100 give 3 requests), and the keys of the merged map are among the
\* ids asked for.
C13_BatchesCoverIds ==
    fetch.pc = "done" =>
        /\ Len(Posts(fetch.log)) = CeilDiv(fetch.n, fetch.batch_size)
        /\ ExactCover(Posts(fetch.log), fetch.n, fetch.batch_size)
        /\ (fetch.n = 250 /\ fetch.batch_size = 100 => Len(Posts(fetch.log)) = 3)
        /\ fetch.qmaps \subseteq 1..fetch.n

\* C14: a 429 on a batch is raised as the rate-limit failure and any other
\* non-2xx status as the upstream failure; the failure leaves the loop, and
\* once it has, no request is sent again: not for the failed batch, not for a
\* later one.
C14_FailurePropagatesNoRetry ==
    /\ [](/\ fetch.status = 429 => fetch.pc = "raised" /\ fetch.raised = HTTP429
          /\ (fetch.status # 0 /\ fetch.status # 429 /\ fetch.status \notin 200..299) =>
                 fetch.pc = "raised" /\ fetch.raised = HTTP502
          /\ (fetch.pc = "raised" /\ fetch.status # 0) =>
                 /\ fetch.log # << >>
                 /\ fetch.log[Len(fetch.log)] =
                        PostEvent(fetch.i, IF fetch.i + fetch.batch_size < fetch.n
                                           THEN fetch.i + fetch.batch_size
                                           ELSE fetch.n)
                 /\ ExactCover(Posts(fetch.log), fetch.log[Len(fetch.log)].to,
                               fetch.batch_size))
    /\ [][fetch.pc = "raised" => fetch' = fetch]_vars

\* C14's case: the second batch of a call with at least three meets a 429.
C14_Witness ==
    /\ fetch.pc = "raised" /\ fetch.raised = HTTP429
    /\ Len(Posts(fetch.log)) = 2
    /\ fetch.i + fetch.batch_size < fetch.n

\* C15: the pause is made once between two consecutive requests of a call and
\* never after the last: requests and pauses alternate, starting with a
\* request, and a call that ends after k requests has made k - 1 pauses (none
\* when k = 1).
C15_PauseBetweenBatches ==
    /\ \A j \in 1..Len(fetch.log) :
         fetch.log[j].ev = IF j % 2 = 1 THEN "post" ELSE "sleep"
    /\ (fetch.pc = "done" /\ fetch.log # << >>) =>
         /\ fetch.log[Len(fetch.log)].ev = "post"
         /\ Len(Posts(fetch.log)) = CeilDiv(fetch.n, fetch.batch_size)
         /\ Pauses(fetch.log) = Len(Posts(fetch.log)) - 1

\* C15's case: a call of two batches, the last one full, has paused once.
C15_Witness ==
    /\ fetch.pc = "done"
    /\ fetch.n = 2 * fetch.batch_size
    /\ Len(Posts(fetch.log)) = 2
    /\ Pauses(fetch.log) = 1

----------------------------------------------------------------------------
(* Windowing claims, checked under SpecWindow *)

\* The sequence lo, lo + 1, ..., hi - 1.
Slice(lo, hi) == [k \in 1..(IF hi > lo THEN hi - lo ELSE 0) |-> lo + k - 1]

\* C16: with spread on, stride = max(1, n div max_symbols) and
\* start = spread_shift mod n, and the indices chosen are start, start + stride,
\* start + 2 * stride, ...: at most max_symbols of them, as many as lie in the
\* universe, each a valid index and none twice.  A universe of 5, max_symbols 2
\* and spread_shift 0 give indices 0 and 2.
C16_StridedWindow ==
    (eval.fn = "page" /\ eval.done /\ eval.p.spread) =>
        LET n == eval.n
            w == eval.p.max_symbols
            idx == eval.indices
            stride == IF n \div w >= 1 THEN n \div w ELSE 1
            start == IF n > 0 THEN eval.p.spread_shift % n ELSE 0
        IN  /\ \A k \in 1..Len(idx) : idx[k] = start + (k - 1) * stride
            /\ \A k \in 1..Len(idx) : idx[k] \in 0..(n - 1)
            /\ \A j, k \in 1..Len(idx) : j # k => idx[j] # idx[k]
            /\ Len(idx) <= w
            /\ Len(idx) = w \/ start + Len(idx) * stride >= n
            /\ (n = 5 /\ w = 2 /\ eval.p.spread_shift = 0) => idx = <<0, 2>>

\* C16's case: a spread_shift beyond the universe, which the modulo brings
\* back into it.
C16_Witness ==
    /\ eval.fn = "page" /\ eval.done /\ eval.p.spread
    /\ eval.n = 2
    /\ eval.p.spread_shift = 3
    /\ eval.indices = <<1>>

\* C17: with spread off, the page is the slice
\* [spread_shift, spread_shift + max_symbols) of the universe.
C17_SequentialFromOffset ==
    (eval.fn = "page" /\ eval.done /\ ~eval.p.spread) =>
        eval.indices = Slice(IF eval.p.spread_shift < eval.n THEN eval.p.spread_shift
                             ELSE eval.n,
                             IF eval.p.spread_shift + eval.p.max_symbols < eval.n
                             THEN eval.p.spread_shift + eval.p.max_symbols
                             ELSE eval.n)

----------------------------------------------------------------------------
(* Scan Engine claims, checked under SpecClassify *)

\* The quote of page entry i, or NoQuote when the map has none for its id.
NoQuote == Quote(0, "N/A", 0, 0, 0, 0)
QuoteOf(i) ==
    LET k == Str(eval.page[i].security_id) IN
    IF k \in DOMAIN eval.qmaps THEN eval.qmaps[k] ELSE NoQuote

\* The page entries without a quote or a last price, those of the rest whose
\* last trade is not of today (or has no date that parses) while only_today
\* is on, and those of the rest without an open price.
Unquoted == {i \in 1..Len(eval.page) : QuoteOf(i).last_price = 0}
Stale ==
    {i \in 1..Len(eval.page) \ Unquoted :
        /\ eval.p.only_today
        /\ parse_last_trade_date(QuoteOf(i).last_trade_time) # today}
Unopened == {i \in (1..Len(eval.page) \ Unquoted) \ Stale : QuoteOf(i).open = 0}

\* C18: in a successful response every entry of the page is counted once, as
\* a classified result, as skipped_no_quote or as skipped_stale: the three add
\* up to the size of the page; an entry without quote or last price is among
\* skipped_no_quote and, with only_today on, an entry whose last trade date
\* does not parse or is not today is among skipped_stale.
C18_EveryEntryAccounted ==
    (eval.fn = "classify" /\ eval.done) =>
        LET resp == eval.resp[1] IN
        /\ resp.status = "success"
        /\ resp.symbols_scanned = Len(eval.results)
        /\ resp.symbols_scanned + resp.skipped_no_quote + resp.skipped_stale
             = Len(eval.page)
        /\ resp.skipped_no_quote = Cardinality(Unquoted \cup Unopened)
        /\ resp.skipped_stale = Cardinality(Stale)

\* C18's case: a page with a result, an entry without quote and a stale one.
C18_Witness ==
    /\ eval.fn = "classify" /\ eval.done
    /\ Len(eval.page) = 3
    /\ eval.resp[1].symbols_scanned = 1
    /\ eval.resp[1].skipped_no_quote = 1
    /\ eval.resp[1].skipped_stale = 1

\* x ranks strictly above y by (confidence, pct_vs_open).
Above(x, y) ==
    \/ x.confidence > y.confidence
    \/ x.confidence = y.confidence /\ x.pct_vs_open > y.pct_vs_open

\* The members of a sequence.
Range(seq) == {seq[i] : i \in 1..Len(seq)}

\* C19: top_results holds at most `limit` results, the first `limit` of the
\* classified ones in descending order of (confidence, pct_vs_open): it never
\* rises, and no result left out ranks above one that is in.
C19_TopResultsSortedAndCut ==
    (eval.fn = "classify" /\ eval.done) =>
        LET top == eval.resp[1].top_results
            all == eval.results
        IN  /\ Len(top) <= eval.p.limit
            /\ Len(top) = IF Len(all) < eval.p.limit THEN Len(all) ELSE eval.p.limit
            /\ Range(top) \subseteq Range(all)
            /\ Cardinality(Range(top)) = Len(top)
            /\ \A i, j \in 1..Len(top) : i < j => ~Above(top[j], top[i])
            /\ \A x \in Range(all) \ Range(top) : \A y \in Range(top) : ~Above(x, y)

\* C19's case: three results, two of one confidence, that the loop found in
\* another order than the sort leaves them in, cut to two.
C19_Witness ==
    /\ eval.fn = "classify" /\ eval.done
    /\ eval.p.limit = 2
    /\ Len(eval.results) = 3
    /\ Len(eval.resp[1].top_results) = 2
    /\ eval.resp[1].top_results[1].confidence = eval.resp[1].top_results[2].confidence
    /\ eval.resp[1].top_results[1].pct_vs_open > eval.resp[1].top_results[2].pct_vs_open
    /\ eval.resp[1].top_results[1] = eval.results[3]

\* The quote a result was classified from: that of the page entry with its
\* symbol.
QuoteFor(r) ==
    QuoteOf(CHOOSE i \in 1..Len(eval.page) : eval.page[i].symbol_name = r.symbol)

\* The confidence of a bias in a mode.
ConfidenceOf(bias, mode) ==
    CASE bias = "BULLISH" -> IF mode = "btst" THEN 85 ELSE 80
      [] bias = "BEARISH" -> IF mode = "btst" THEN 82 ELSE 78
      [] OTHER -> 65

\* pct_vs_open (in hundredths of a percent) of r is
\* (last_price - open) / open * 100.
PctOfQuote(r) ==
    r.pct_vs_open * QuoteFor(r).open = (QuoteFor(r).last_price - QuoteFor(r).open) * 10000

\* C20: every result has pct_vs_open = (last_price - open) / open * 100, bias
\* BULLISH when that is at or above +1.2, BEARISH when it is at or below -1.2
\* and NEUTRAL otherwise, and the confidence that goes with its bias and the
\* mode; last price 105 against 100 gives 5.0 and BULLISH.
C20_BiasByThreshold ==
    (eval.fn = "classify" /\ eval.done) =>
        \A r \in Range(eval.results) :
            /\ PctOfQuote(r)
            /\ r.bias = IF r.pct_vs_open >= 120 THEN "BULLISH"
                        ELSE IF r.pct_vs_open <= -120 THEN "BEARISH"
                        ELSE "NEUTRAL"
            /\ r.confidence = ConfidenceOf(r.bias, eval.p.mode)
            /\ (QuoteFor(r).last_price = 105 /\ QuoteFor(r).open = 100) =>
                   (r.pct_vs_open = 500 /\ r.bias = "BULLISH")

\* C20 amended: as C20, but in mode btst a move of +1.2 or more is BULLISH
\* only with the last price in the top 30% of the day's range (range_pos >=
\* 0.70) and a move of -1.2 or less is BEARISH only with it in the bottom 30%
\* (range_pos <= 0.30), and is NEUTRAL otherwise.
C20_BiasByThresholdAndRange ==
    (eval.fn = "classify" /\ eval.done) =>
        \A r \in Range(eval.results) :
            LET btst == eval.p.mode = "btst" IN
            /\ PctOfQuote(r)
            /\ r.bias = IF r.pct_vs_open >= 120 /\ (btst => r.range_pos >= 70)
                        THEN "BULLISH"
                        ELSE IF r.pct_vs_open <= -120 /\ (btst => r.range_pos <= 30)
                        THEN "BEARISH"
                        ELSE "NEUTRAL"
            /\ r.confidence = ConfidenceOf(r.bias, eval.p.mode)
            /\ (QuoteFor(r).last_price = 105 /\ QuoteFor(r).open = 100) =>
                   /\ r.pct_vs_open = 500
                   /\ (~btst \/ r.range_pos >= 70) => r.bias = "BULLISH"

\* C20's case: in mode btst, two quotes of 105 against an open of 100, one at
\* the day's high and BULLISH, one in the middle of the range and NEUTRAL, and
\* a move of exactly +1.2.
C20_Witness ==
    /\ eval.fn = "classify" /\ eval.done
    /\ eval.p.mode = "btst"
    /\ \E r \in Range(eval.results) : r.pct_vs_open = 500 /\ r.bias = "BULLISH"
    /\ \E r \in Range(eval.results) : r.pct_vs_open = 500 /\ r.bias = "NEUTRAL"
    /\ \E r \in Range(eval.results) : r.pct_vs_open = 120 /\ r.bias = "BULLISH"

----------------------------------------------------------------------------
(* resolve_symbol() on its own: SpecResolve gives it every list of at most   *)
(* MaxRows rows of NamePool and every query of Queries, the rows being what  *)
(* load_master_rows() returned.  A name is the sequence of its characters.   *)

HTTP404 == "HTTPException(404)"     \* Symbol '...' not found in Dhan master CSV.

\* ch.upper() and ch.isalnum() on the characters the names are made of.
upper(ch) ==
    CASE ch = "a" -> "A"
      [] ch = "b" -> "B"
      [] OTHER -> ch
isalnum(ch) == ch \in {"A", "B", "a", "b", "1"}

\* _norm(s): the alphanumeric characters of s.upper().
RECURSIVE _norm(_)
_norm(s) ==
    IF s = << >> THEN << >>
    ELSE (IF isalnum(upper(Head(s))) THEN <<upper(Head(s))>> ELSE << >>)
           \o _norm(Tail(s))

\* One row of the master CSV (the columns that resolve_symbol reads).
MasterRow(exch, sym, disp, und) ==
    [EXCH_ID |-> exch, SYMBOL_NAME |-> sym, DISPLAY_NAME |-> disp,
     UNDERLYING_SYMBOL |-> und]

\* (r.get("EXCH_ID") or "").upper() == "NSE"
OnNSE(r) == (IF r.EXCH_ID = "nse" THEN "NSE" ELSE r.EXCH_ID) = "NSE"

\* The test of the first loop: s == sym or s == disp or s == und.
ExactMatch(s, r) ==
    \/ s = _norm(r.SYMBOL_NAME)
    \/ s = _norm(r.DISPLAY_NAME)
    \/ s = _norm(r.UNDERLYING_SYMBOL)

\* Python's `s in t` on strings.
In(s, t) == \E i \in 1..(Len(t) - Len(s) + 1) : SubSeq(t, i, i + Len(s) - 1) = s

\* combined of the second loop.
Combined(r) ==
    _norm(r.SYMBOL_NAME \o <<" ">> \o r.DISPLAY_NAME \o <<" ">> \o r.UNDERLYING_SYMBOL)

\* The test of the second loop: s and s in combined.
SubstringMatch(s, r) == s # << >> /\ In(s, Combined(r))

\* Preferred with the first match returned, on whatever exchange.
Preferred_First(matches) == matches[1]

\* The row returned out of a non-empty list of matches: the first one on NSE,
\* else the first one.
Preferred(matches) ==
    LET nse == SelectSeq(matches, OnNSE)
    IN  IF nse # << >> THEN nse[1] ELSE matches[1]

\* resolve_symbol(symbol) on the rows load_master_rows() returned.
resolve_symbol(rows, symbol) ==
    LET s == _norm(symbol)
        exact == SelectSeq(rows, LAMBDA r : ExactMatch(s, r))
        candidates == SelectSeq(rows, LAMBDA r : SubstringMatch(s, r))
    IN  IF exact # << >>
        THEN [raised |-> NoError, row |-> Some(Preferred(exact))]
        ELSE IF candidates = << >>
        THEN [raised |-> HTTP404, row |-> Absent]
        ELSE [raised |-> NoError, row |-> Some(Preferred(candidates))]

\* Rows of a master CSV: one share listed on two exchanges, names spelt with
\* spaces, hyphens and lower case, empty columns, and an exchange id in
\* lower case.
NamePool ==
    { MasterRow("BSE", <<"A", "B">>, <<"A", "b", " ", "1">>, << >>),
      MasterRow("NSE", <<"A", "B">>, << >>, <<"A", "B">>),
      MasterRow("NSE", <<"A", "-", "B", "1">>, <<"1">>, <<"1">>),
      MasterRow("nse", <<"B">>, <<"A">>, <<"A">>),
      MasterRow("BSE", <<"B", "1">>, <<"B">>, <<"B">>) }

NameLists == UNION {[1..n -> NamePool] : n \in 0..MaxRows}

\* What a caller may ask for.
Queries ==
    { <<"A", "B">>, <<"a", " ", "b">>, <<"a", "b", "1">>, <<"B">>, <<"B", "A">>,
      << >>, <<"-">>, <<"1">>, <<"1", "1">>, <<"A", "A", "A">> }

InitResolve ==
    /\ now = 0
    /\ ticks = 0
    /\ AuthInit(NoFile)
    /\ MainInit
    /\ fetch = NoFetch
    /\ \E rows \in NameLists, symbol \in Queries :
         eval = [fn |-> "resolve_symbol", done |-> FALSE, rows |-> rows,
                 symbol |-> symbol, result |-> [raised |-> NoError, row |-> Absent]]

\* resolve_symbol, from `s = _norm(symbol)` to the return or the raise.
Resolve ==
    /\ eval.fn = "resolve_symbol"
    /\ ~eval.done
    /\ eval' = [eval EXCEPT !.done = TRUE,
                            !.result = resolve_symbol(eval.rows, eval.symbol)]
    /\ UNCHANGED <<clockVars, authVars, masterVars, scanVars, loader, fetch, workVars>>

NextResolve == Resolve

SpecResolve == InitResolve /\ [][NextResolve]_vars

(* Symbol resolution claim, checked under SpecResolve *)

\* The rows (by position) one of whose symbol, display and underlying names,
\* normalized, equals the normalized query.
ExactRows == {i \in 1..Len(eval.rows) : ExactMatch(_norm(eval.symbol), eval.rows[i])}

\* The rows (by position) whose normalized names hold the normalized query,
\* when it is not empty.
SubstringRows ==
    {i \in 1..Len(eval.rows) : SubstringMatch(_norm(eval.symbol), eval.rows[i])}

\* The call returned one of the rows at positions S, and one on NSE if there
\* is one among them.
ReturnedFrom(S) ==
    /\ eval.result.raised = NoError
    /\ \E i \in S : eval.result.row = Some(eval.rows[i])
    /\ (\E i \in S : OnNSE(eval.rows[i])) => OnNSE(eval.result.row[1])

\* C21: resolve_symbol returns a row of the exact pass when there is one, an
\* NSE row if one is among the exact matches; it returns a row of the
\* substring pass, with the same preference, only when the exact pass found
\* nothing; and it raises the 404 "not found" exactly when neither pass
\* matches a row.
C21_ExactThenSubstring ==
    (eval.fn = "resolve_symbol" /\ eval.done) =>
        /\ ExactRows # {} => ReturnedFrom(ExactRows)
        /\ (ExactRows = {} /\ SubstringRows # {}) => ReturnedFrom(SubstringRows)
        /\ eval.result.raised = HTTP404 <=> (ExactRows = {} /\ SubstringRows = {})

\* C21's case: the query "a b" on rows of which the first holds "AB" only as
\* a substring, the second matches exactly on BSE and the third exactly on
\* NSE: the third is returned.
C21_Witness ==
    /\ eval.fn = "resolve_symbol" /\ eval.done
    /\ eval.symbol = <<"a", " ", "b">>
    /\ eval.rows = << MasterRow("NSE", <<"A", "-", "B", "1">>, <<"1">>, <<"1">>),
                      MasterRow("BSE", <<"A", "B">>, <<"A", "b", " ", "1">>, << >>),
                      MasterRow("NSE", <<"A", "B">>, << >>, <<"A", "B">>) >>
    /\ eval.result.row = Some(MasterRow("NSE", <<"A", "B">>, << >>, <<"A", "B">>))

----------------------------------------------------------------------------
(* Refresh failure claim, checked under SpecAuth *)

\* C22: a refresh attempt that fails at any step (transport error, non-2xx
\* status, malformed or incomplete body) leaves the token in memory, its
\* expiry and the token file as they were.
C22_FailedRefreshChangesNothing ==
    [][\A c \in Callers :
         (pc[c] = "refreshing" /\ pc'[c] = "idle" /\ last'.failed # "no") =>
             /\ access_token' = access_token
             /\ expires_at' = expires_at
             /\ token_file' = token_file]_vars

----------------------------------------------------------------------------
(* build_nse_eq_universe() under concurrent requests: SpecBuild runs callers *)
(* of build_nse_eq_universe() and of load_master_rows() together.  Neither   *)
(* function takes a lock; a caller can be overtaken at each request it sends *)
(* and inside the loop over the rows.                                        *)

\* build_nse_eq_universe(force_refresh), the entry: with force_refresh,
\* load_master_rows(force=True) reads the clock and sends its download.
build_begin(c, force_refresh) ==
    /\ builder[c].pc = "idle"
    /\ builder' = [builder EXCEPT ![c] =
                     [pc |-> IF force_refresh THEN "force" ELSE "check",
                      now |-> now, rows |-> << >>]]
    /\ UNCHANGED <<clockVars, authVars, masterVars, scanVars, callVars, order>>

\* load_master_rows(force=True) inside build_nse_eq_universe, from the
\* response on: raise, or assign the cache.
build_forced(c) ==
    /\ builder[c].pc = "force"
    /\ \E r \in MasterResponses :
         /\ _MASTER_CACHE' =
              load_master_rows(_MASTER_CACHE, builder[c].now, TRUE, r).cache
         /\ builder' = [builder EXCEPT ![c] =
                          IF r.kind = "ok" THEN [@ EXCEPT !.pc = "check"]
                          ELSE NoBuild]
    /\ UNCHANGED <<clockVars, authVars, lastOp, loadedAt, scanVars, callVars, order>>

\* `if _MASTER_CACHE["nse_eq_universe"] is not None: return ...`, then
\* `rows = load_master_rows()` up to its return of the cached rows or its
\* download.
build_check(c) ==
    /\ builder[c].pc = "check"
    /\ builder' = [builder EXCEPT ![c] =
                     IF _MASTER_CACHE.nse_eq_universe # Absent THEN NoBuild
                     ELSE IF CacheFresh(_MASTER_CACHE, now)
                     THEN [pc |-> "loop", now |-> now, rows |-> _MASTER_CACHE.rows[1]]
                     ELSE [pc |-> "get", now |-> now, rows |-> << >>]]
    /\ UNCHANGED <<clockVars, authVars, masterVars, scanVars, callVars, order>>

\* `rows = load_master_rows()`, from the response on.
build_rows(c) ==
    /\ builder[c].pc = "get"
    /\ \E r \in MasterResponses :
         /\ _MASTER_CACHE' =
              load_master_rows(_MASTER_CACHE, builder[c].now, TRUE, r).cache
         /\ builder' = [builder EXCEPT ![c] =
                          IF r.kind = "ok"
                          THEN [pc |-> "loop", now |-> @.now, rows |-> r.rows]
                          ELSE NoBuild]
    /\ UNCHANGED <<clockVars, authVars, lastOp, loadedAt, scanVars, callVars, order>>

\* The loop over rows, `_MASTER_CACHE["nse_eq_universe"] = universe` and the
\* return.
build_end(c) ==
    /\ builder[c].pc = "loop"
    /\ _MASTER_CACHE' =
         [_MASTER_CACHE EXCEPT !.nse_eq_universe = Some(Universe(builder[c].rows))]
    /\ builder' = [builder EXCEPT ![c] = NoBuild]
    /\ UNCHANGED <<clockVars, authVars, lastOp, loadedAt, scanVars, callVars, order>>

NextBuild ==
    \/ \E c \in Callers, force_refresh \in BOOLEAN : build_begin(c, force_refresh)
    \/ \E c \in Callers : build_forced(c)
    \/ \E c \in Callers : build_check(c)
    \/ \E c \in Callers : build_rows(c)
    \/ \E c \in Callers : build_end(c)
    \/ \E c \in Callers, force \in BOOLEAN : load_begin(c, force)
    \/ \E c \in Callers : load_end(c)
    \/ \E d \in MasterSteps : Tick(d, MaxBuildTicks)

SpecBuild == Init /\ [][NextBuild]_vars

(* Universe cache claim, checked under SpecBuild *)

\* C23: whenever no build and no refresh is in progress and a universe is
\* cached, it is the universe derived from the rows that are cached.
C23_UniverseMatchesRows ==
    (/\ \A c \in Callers : builder[c].pc = "idle" /\ loader[c].pc = "idle"
     /\ _MASTER_CACHE.nse_eq_universe # Absent) =>
        /\ _MASTER_CACHE.rows # Absent
        /\ _MASTER_CACHE.nse_eq_universe = Some(Universe(_MASTER_CACHE.rows[1]))

----------------------------------------------------------------------------
(* Window size claim, checked under SpecWindow *)

\* C24: with spread on and a universe of at least max_symbols entries, the
\* page holds exactly max_symbols entries, whatever spread_shift is.
C24_StridedWindowFull ==
    (eval.fn = "page" /\ eval.done /\ eval.p.spread /\ eval.n >= eval.p.max_symbols) =>
        Len(eval.indices) = eval.p.max_symbols

----------------------------------------------------------------------------
(* dhan_trade.py: place_order(), one call at a time, one step per request    *)
(* it sends.  It works on the module's DhanAuth object, whose token, expiry  *)
(* and file are the variables of dhan_auth.py above; the history variables   *)
(* of get_token()'s callers (pc, everHeld, grant, last) are left alone.      *)

\* What place_order returns besides the upstream body:
RiskLimitExceeded == "Risk limit exceeded."     \* {"status": "error", "reason": ...}
OrderError == "str(e)"                          \* {"status": "error", "reason": str(e)}
OrderBody == "r.json()"

\* qty and price of a call: price not given, zero, and values that bring
\* qty * price under, onto and over the limit.
OrderQtys == 1..MaxQty
OrderPrices == {Absent, Some(0), Some(700), Some(2000), Some(2001)}

\* _risk_check with a price that is not given counted as nothing.
_risk_check_NoFallback(qty, price) ==
    LET p == IF price = Absent THEN 0 ELSE price[1]
    IN  qty * p * 100 <= CAPITAL * MAX_RISK_PER_TRADE

\* _risk_check(qty, price): est_value <= CAPITAL * MAX_RISK_PER_TRADE, both
\* sides in hundredths.
_risk_check(qty, price) ==
    LET p == IF price = Absent \/ price[1] = 0 THEN FALLBACK_PRICE ELSE price[1]
    IN  qty * p * 100 <= CAPITAL * MAX_RISK_PER_TRADE

\* What POST /orders can come to: no response (requests raises), 200 with a
\* JSON body, 204 with none, 401, 500.
OrderStatuses == {0, 200, 204, 401, 500}

\* Retry with every refused order sent again.
Retry_AnyRefusal(status) == status \in {401, 500}

\* `if r.status_code == 401`
Retry(status) == status = 401

\* What the try block comes to on the last response: r.raise_for_status(),
\* return r.json(), and the except branch.
OrderResult(status) == IF status = 200 THEN OrderBody ELSE OrderError

\* The requests in order.log: an order with the token it carried and the
\* status it met, a token refresh with the token held after it.
OrderPost(tok, status) == [req |-> "order", tok |-> tok, status |-> status]
RefreshPost(held) == [req |-> "refresh", tok |-> held, status |-> 0]

\* place_order from the return of get_token() with token tok to the first
\* request: headers, payload and the risk check.
Checked(o, tok) ==
    IF ~_risk_check(o.qty, o.price)
    THEN [o EXCEPT !.pc = "done", !.token = tok, !.result = RiskLimitExceeded]
    ELSE [o EXCEPT !.pc = "post1", !.token = tok]

\* place_order(symbol, qty, side, price): token = auth.get_token(), which
\* returns the held token or sends a refresh request.
place_order(qty, price) ==
    /\ order.pc = "idle"
    /\ LET o == [NoOrder EXCEPT !.qty = qty, !.price = price]
       IN  order' = IF TokenUsable(access_token, expires_at, now)
                    THEN Checked(o, access_token)
                    ELSE [o EXCEPT !.pc = "token"]
    /\ UNCHANGED <<clockVars, authVars, masterVars, scanVars, callVars, builder>>

\* get_token()'s _refresh_token() from the response on: a RuntimeError leaves
\* place_order; a token goes into the headers.
place_order_token ==
    /\ order.pc = "token"
    /\ \E r \in Responses :
         LET ret == RefreshResult(r, TokenAfter(r))
             o == [order EXCEPT !.log = Append(@, RefreshPost(TokenAfter(r)))]
         IN  /\ access_token' = TokenAfter(r)
             /\ expires_at' = ExpiryAfter(r)
             /\ token_file' = FileAfter(r)
             /\ order' = IF ret = RuntimeError
                          THEN [o EXCEPT !.pc = "done", !.result = RuntimeError]
                          ELSE Checked(o, ret)
    /\ UNCHANGED <<clockVars, pc, everHeld, grant, last, masterVars, scanVars,
                   callVars, builder>>

\* The first requests.post(.../orders) and what follows its response:
\* auth._refresh_token() sends its request on a 401, else the call ends.
place_order_post ==
    /\ order.pc = "post1"
    /\ \E status \in OrderStatuses :
         order' = IF Retry(status)
                  THEN [order EXCEPT !.pc = "refresh",
                                     !.log = Append(@, OrderPost(order.token, status))]
                  ELSE [order EXCEPT !.pc = "done",
                                     !.log = Append(@, OrderPost(order.token, status)),
                                     !.result = OrderResult(status)]
    /\ UNCHANGED <<clockVars, authVars, masterVars, scanVars, callVars, builder>>

\* auth._refresh_token() from the response on, and
\* headers["access-token"] = auth.access_token; a RuntimeError is caught by
\* the except branch.
place_order_refresh ==
    /\ order.pc = "refresh"
    /\ \E r \in Responses :
         LET ret == RefreshResult(r, TokenAfter(r))
             o == [order EXCEPT !.log = Append(@, RefreshPost(TokenAfter(r)))]
         IN  /\ access_token' = TokenAfter(r)
             /\ expires_at' = ExpiryAfter(r)
             /\ token_file' = FileAfter(r)
             /\ order' = IF ret = RuntimeError
                          THEN [o EXCEPT !.pc = "done", !.result = OrderError]
                          ELSE [o EXCEPT !.pc = "post2", !.token = TokenAfter(r)]
    /\ UNCHANGED <<clockVars, pc, everHeld, grant, last, masterVars, scanVars,
                   callVars, builder>>

\* The second requests.post(.../orders), r.raise_for_status() and the return.
place_order_retry ==
    /\ order.pc = "post2"
    /\ \E status \in OrderStatuses :
         order' = [order EXCEPT !.pc = "done",
                                !.log = Append(@, OrderPost(order.token, status)),
                                !.result = OrderResult(status)]
    /\ UNCHANGED <<clockVars, authVars, masterVars, scanVars, callVars, builder>>

\* The caller has the result; the next call may start.
place_order_return ==
    /\ order.pc = "done"
    /\ order' = NoOrder
    /\ UNCHANGED <<clockVars, authVars, masterVars, scanVars, callVars, builder>>

InitTrade ==
    /\ now = 0
    /\ ticks = 0
    /\ \E f \in TokenFiles : AuthInit(f)
    /\ MainInit
    /\ fetch = NoFetch
    /\ eval = NoEval

NextTrade ==
    \/ \E qty \in OrderQtys, price \in OrderPrices : place_order(qty, price)
    \/ place_order_token
    \/ place_order_post
    \/ place_order_refresh
    \/ place_order_retry
    \/ place_order_return
    \/ \E d \in ServerTTLs : Tick(d, MaxTicks)

SpecTrade == InitTrade /\ [][NextTrade]_vars

(* Order claims, checked under SpecTrade *)

\* The positions in order.log of the order requests.
OrderPosts == {i \in 1..Len(order.log) : order.log[i].req = "order"}

\* C25: one call sends at most two order requests; a second one follows a
\* first that met 401, with exactly one refresh attempt in between, and
\* carries the token held after that attempt; nothing is sent after the second
\* one, and when it meets 401 the call returns the error result.
C25_AtMostOneRetry ==
    /\ Cardinality(OrderPosts) <= 2
    /\ \A i, j \in OrderPosts :
         i < j => /\ order.log[i].status = 401
                  /\ j = i + 2
                  /\ order.log[i + 1].req = "refresh"
                  /\ order.log[j].tok = order.log[i + 1].tok
                  /\ j = Len(order.log)
                  /\ order.pc = "done"
                  /\ order.log[j].status = 401 => order.result = OrderError

\* C25's case: the first order carried T1 and met 401, the refresh brought
\* T2, the second order carried T2 and met 401 again.
C25_Witness ==
    /\ order.pc = "done"
    /\ order.log = <<OrderPost("T1", 401), RefreshPost("T2"), OrderPost("T2", 401)>>
    /\ order.result = OrderError

\* The estimated value of the order in progress is over the limit: qty times
\* price, price taken as 1000 when it is not given or zero, exceeds
\* CAPITAL times MAX_RISK_PER_TRADE.
OverLimit ==
    /\ order.pc # "idle"
    /\ order.qty * 100 * (IF order.price \in {Absent, Some(0)} THEN 1000
                          ELSE order.price[1])
         > CAPITAL * MAX_RISK_PER_TRADE

\* C26: a call whose estimated value is over the limit sends no order request
\* and returns the risk-limit error result.
C26_OverLimitRefused ==
    OverLimit =>
        /\ OrderPosts = {}
        /\ order.pc = "done" => order.result = RiskLimitExceeded

\* C26, amended: a call whose estimated value is over the limit sends no order
\* request; it returns the risk-limit error result, unless get_token(), which
\* runs before the risk check, raised for want of any token.
C26_OverLimitRefusedOrNoToken ==
    OverLimit =>
        /\ OrderPosts = {}
        /\ order.pc = "done" =>
             \/ order.result = RiskLimitExceeded
             \/ /\ order.result = RuntimeError
                /\ order.log = <<RefreshPost(None)>>

\* C26's case: three shares with no price given are valued at 3000, over the
\* limit of 2000, and refused.
C26_Witness ==
    /\ order.pc = "done"
    /\ order.qty = 3
    /\ order.price = Absent
    /\ order.log = << >>
    /\ order.result = RiskLimitExceeded

====
